---- MODULE Spec2Model ----
(***************************************************************************)
(* Model of hug-chakra (the Human Universal Gridder for Chakra UI):        *)
(*   getClosestValue  - closest-value resolution over breakpoints          *)
(*   useHugGrid       - grid template construction and subgrid slicing     *)
(*   Hug              - the component that combines both                   *)
(* The functions are pure; every specification draws the inputs of one     *)
(* call in its initial state and its action applies the function.          *)
(***************************************************************************)
EXTENDS Integers, Sequences, FiniteSets, TLC

VARIABLES
  pc,                   \* "call": inputs chosen, function not yet applied; "done"
  values,               \* getClosestValue: values
  breakpoint,           \* getClosestValue: breakpoint
  breakpoints,          \* getClosestValue / useHugGrid / Hug: breakpoints
  defaultValue,         \* getClosestValue: defaultValue (Undefined when omitted)
  result,               \* getClosestValue: returned value
  userGrid,             \* useHugGrid: userGrid (Undefined when omitted)
  columnCount,          \* useHugGrid: columnCount
  layoutMax,            \* useHugGrid: layoutMax
  gridGap,              \* useHugGrid: gridGap
  currentMdq,           \* useHugGrid / Hug: currentMdq
  gridTemplateForMdq,   \* useHugGrid: local gridTemplateForMdq
  gridTemplateColumns,  \* useHugGrid: local gridTemplateColumns
  gridProps,            \* useHugGrid: outcome (returned object or thrown error)
  hugConfig,            \* Hug: theme.config?.hug (Undefined when not set)
  hugGrid,              \* Hug: props.hugGrid (Undefined when omitted)
  element               \* Hug: outcome (rendered props or thrown error)

vars == <<pc, values, breakpoint, breakpoints, defaultValue, result,
          userGrid, columnCount, layoutMax, gridGap, currentMdq,
          gridTemplateForMdq, gridTemplateColumns, gridProps,
          hugConfig, hugGrid, element>>

gridVars == <<userGrid, columnCount, layoutMax, gridGap,
              gridTemplateForMdq, gridTemplateColumns, gridProps>>
hugVars == <<hugConfig, hugGrid, element>>

(***************************************************************************)
(* Bounds                                                                  *)
(***************************************************************************)
NumBreakpoints == 3
MaxColumns == 4

(***************************************************************************)
(* JavaScript values: tagged, so that 4 and '4' and undefined are distinct *)
(***************************************************************************)
Undefined == [t |-> "undefined"]
Num(n) == [t |-> "number", v |-> n]
Str(s) == [t |-> "string", v |-> s]
Arr(a) == [t |-> "object", v |-> a]

\* JavaScript truthiness, as used by if (values[key]) and if (!x).
Truthy(x) ==
  CASE x.t = "undefined" -> FALSE
    [] x.t = "number" -> x.v # 0
    [] x.t = "string" -> x.v # ""
    [] OTHER -> TRUE

\* values[key]: the own entry, or undefined.
Get(obj, key) == IF key \in DOMAIN obj THEN obj[key] ELSE Undefined

\* Object.keys(values).indexOf(key) !== -1
HasOwnKey(obj, key) == key \in DOMAIN obj

\* Array.prototype.indexOf, 0-based, -1 when absent.
IndexOf(arr, x) ==
  IF \E i \in 1..Len(arr) : arr[i] = x
    THEN (CHOOSE i \in 1..Len(arr) : arr[i] = x /\ \A j \in 1..(i - 1) : arr[j] # x) - 1
    ELSE -1

\* arr[i] with a 0-based index.
At(arr, i) == arr[i + 1]

(***************************************************************************)
(* getClosestValue                                                         *)
(***************************************************************************)
RECURSIVE ScanDownPresent(_, _, _)
ScanDownPresent(vals, bps, stopIndex) ==
  IF stopIndex < 0 THEN -1
  ELSE IF HasOwnKey(vals, At(bps, stopIndex)) THEN stopIndex
  ELSE ScanDownPresent(vals, bps, stopIndex - 1)

\* The while loop: from stopIndex downward, the first index whose entry is
\* truthy, or -1.
RECURSIVE ScanDown(_, _, _)
ScanDown(vals, bps, stopIndex) ==
  IF stopIndex < 0 THEN -1
  ELSE IF Truthy(Get(vals, At(bps, stopIndex))) THEN stopIndex
  ELSE ScanDown(vals, bps, stopIndex - 1)

getClosestValueNoExact(vals, bp, bps, dflt) ==
  LET index == ScanDown(vals, bps, IndexOf(bps, bp))
  IN IF index # -1 THEN Get(vals, At(bps, index)) ELSE dflt

\* A scan that starts at the largest breakpoint when the current one is unknown.
getClosestValueScanAll(vals, bp, bps, dflt) ==
  IF HasOwnKey(vals, bp) THEN Get(vals, bp)
  ELSE LET start == IF IndexOf(bps, bp) = -1 THEN Len(bps) - 1 ELSE IndexOf(bps, bp)
           index == ScanDown(vals, bps, start)
       IN IF index # -1 THEN Get(vals, At(bps, index)) ELSE dflt

getClosestValue(vals, bp, bps, dflt) ==
  IF HasOwnKey(vals, bp) THEN Get(vals, bp)
  ELSE LET index == ScanDown(vals, bps, IndexOf(bps, bp))
       IN IF index # -1 THEN Get(vals, At(bps, index)) ELSE dflt

(***************************************************************************)
(* Inputs of the direct calls of getClosestValue                           *)
(***************************************************************************)
ChakraBreakpoints == <<"base", "sm", "md", "lg", "xl", "2xl">>
BreakpointNames == {ChakraBreakpoints[i] : i \in 1..NumBreakpoints}
ThemeBreakpoints == SubSeq(ChakraBreakpoints, 1, NumBreakpoints)

\* Every sequence of distinct breakpoint names.
Orders ==
  UNION {{s \in [1..n -> BreakpointNames] : \A i, j \in 1..n : i # j => s[i] # s[j]}
           : n \in 0..NumBreakpoints}

PartialMaps(K, V) == UNION {[D -> V] : D \in SUBSET K}

ResolveValues == {Undefined, Num(0), Str(""), Num(4), Num(8)}
ResolveDefaults == {Undefined, Num(16)}

\* The configuration of the README and of HugConfig's shape, resolved at md
\* over the five breakpoints base..xl.
ExampleOrder == <<"base", "sm", "md", "lg", "xl">>
ExampleColumns == [k \in {"base", "md", "lg"} |->
                     IF k = "base" THEN Num(4) ELSE IF k = "md" THEN Num(8) ELSE Num(12)]
ExampleGaps == [k \in {"base", "lg"} |-> IF k = "base" THEN Str("4") ELSE Str("12")]

\* The unused variables of a specification keep these values.
GridIdle ==
  /\ userGrid = Undefined /\ columnCount = 0 /\ layoutMax = "" /\ gridGap = ""
  /\ gridTemplateForMdq = <<>> /\ gridTemplateColumns = <<>>
  /\ gridProps = Undefined
HugIdle == hugConfig = Undefined /\ hugGrid = Undefined /\ element = Undefined
ResolveIdle ==
  /\ values = <<>> /\ breakpoint = "" /\ defaultValue = Undefined
  /\ result = Undefined

InitResolve ==
  /\ pc = "call"
  /\ \/ /\ values \in PartialMaps(BreakpointNames, ResolveValues)
        /\ breakpoint \in BreakpointNames
        /\ breakpoints \in Orders
        /\ defaultValue \in ResolveDefaults
     \/ /\ values \in {ExampleColumns, ExampleGaps}
        /\ breakpoint \in {ExampleOrder[i] : i \in 1..Len(ExampleOrder)}
        /\ breakpoints = ExampleOrder
        /\ defaultValue = Undefined
  /\ result = Undefined
  /\ currentMdq = Undefined
  /\ GridIdle /\ HugIdle

CallGetClosestValue ==
  /\ pc = "call"
  /\ result' = getClosestValue(values, breakpoint, breakpoints, defaultValue)
  /\ pc' = "done"
  /\ UNCHANGED <<values, breakpoint, breakpoints, defaultValue>>
  /\ UNCHANGED <<gridVars, currentMdq, hugVars>>

NextResolve == CallGetClosestValue

SpecResolve == InitResolve /\ [][NextResolve]_vars

(***************************************************************************)
(* useHugGrid                                                              *)
(***************************************************************************)
\* Array.prototype.join
RECURSIVE Join(_, _)
Join(arr, sep) ==
  IF Len(arr) = 0 THEN ""
  ELSE IF Len(arr) = 1 THEN arr[1]
  ELSE arr[1] \o sep \o Join(Tail(arr), sep)

\* arr.map((col) => col.name) and arr.map((col) => col.value)
ColNames(cols) == [i \in 1..Len(cols) |-> cols[i].name]
ColValues(cols) == [i \in 1..Len(cols) |-> cols[i].value]

\* cols.findIndex((col) => col.name === name), 0-based, -1 when absent.
FindIndex(cols, name) == IndexOf(ColNames(cols), name)

\* A slice that puts its two indices in order before cutting.
SliceOrdered(arr, from, to) ==
  IF from <= to THEN SubSeq(arr, from + 1, to) ELSE SubSeq(arr, to + 1, from)

SliceInclusive(arr, from, to) == SubSeq(arr, from + 1, to + 1)

\* Array.prototype.slice(from, to) for 0 <= from, 0 <= to <= length.
Slice(arr, from, to) == SubSeq(arr, from + 1, to)

\* calc(fullColumn - gridGap), from layoutMaxNoPadding and fullColumn.
ContentColWidth(count, lMax, gap) ==
  LET layoutMaxNoPadding == "calc(" \o lMax \o " - " \o gap \o ")"
      fullColumn == "calc(" \o layoutMaxNoPadding \o " / " \o ToString(count) \o ")"
  IN "calc(" \o fullColumn \o " - " \o gap \o ")"

ContentColumnsFromOne(count, width) ==
  [i \in 1..count |->
     [name |-> "content-" \o ToString(i),
      value |-> "[content-" \o ToString(i) \o "] minmax(0, " \o width \o ")"]]

ContentColumnsShort(count, width) ==
  [i \in 1..(count - 2) |->
     [name |-> "content-" \o ToString(i + 1),
      value |-> "[content-" \o ToString(i + 1) \o "] minmax(0, " \o width \o ")"]]

\* Array(columnCount - 1).fill(0).map(...): content-2 .. content-<columnCount>.
ContentColumns(count, width) ==
  [i \in 1..(count - 1) |->
     [name |-> "content-" \o ToString(i + 1),
      value |-> "[content-" \o ToString(i + 1) \o "] minmax(0, " \o width \o ")"]]

GridTemplateForMdq(count, width) ==
  <<[name |-> "full-start", value |-> "[full-start] minmax(0, 1fr)"],
    [name |-> "content-start",
     value |-> "[content-start] minmax(0, " \o width \o ")"]>>
  \o ContentColumns(count, width)
  \o <<[name |-> "content-end", value |-> "[content-end] minmax(0, 1fr)"],
       [name |-> "full-end", value |-> "[full-end]"]>>

\* The emoji that opens every error message, and the quote character put
\* around a line name in it; neither can be written in a TLA+ string.
HugEmoji == ":hug:"
Quote == "|"

LineNotFoundMessage(line, mdq, count, template) ==
  HugEmoji \o " Human Universal Gridder\n\nThe grid line " \o Quote \o line
  \o Quote \o " does not exist in the " \o mdq \o " media query which has "
  \o ToString(count) \o " columns.\nGrid lines for " \o mdq \o ": "
  \o Join(ColNames(template), " | ")

DefaultSubGridContent == Arr(<<"content-start", "content-end">>)

DefaultSubGrid == Arr(<<"full-start", "full-end">>)

MissingLineEndFirst(start, end, startIdx, endIdx) ==
  IF endIdx = -1 THEN end ELSE start

\* The line the error names: startIdx === -1 ? start : end
MissingLine(start, end, startIdx, endIdx) ==
  IF startIdx = -1 THEN start ELSE end

\* The body of if (userGrid): the span of the current breakpoint, the
\* lookup of its two lines and the sliced template.
\* grid is a mapping from breakpoints to Arr(<<start, end>>).
SubGrid(template, grid, count, mdq, bps) ==
  LET span == getClosestValue(grid, mdq, bps, DefaultSubGrid).v
      start == span[1]
      end == span[2]
      startIdx == FindIndex(template, start)
      endIdx == FindIndex(template, end)
  IN IF startIdx = -1 \/ endIdx = -1
       THEN [status |-> "throw",
             gridTemplateForMdq |-> template,
             gridTemplateColumns |-> template,
             message |-> LineNotFoundMessage(
                           MissingLine(start, end, startIdx, endIdx),
                           mdq, count, template)]
       ELSE
         LET lastColumn == At(template, endIdx)
             sliced == Slice(template, startIdx, endIdx)
                         \o <<[name |-> lastColumn.name,
                               value |-> "[" \o lastColumn.name \o "]"]>>
         IN [status |-> "return",
             gridTemplateForMdq |-> template,
             gridTemplateColumns |-> sliced,
             value |-> [gridTemplateColumns |-> Join(ColValues(sliced), "\n"),
                        gridColumn |-> Str(start \o " / " \o end)]]

\* A useHugGrid that takes a missing userGrid for an empty one.
useHugGridAlwaysSpan(grid, count, lMax, gap, mdq, bps) ==
  SubGrid(GridTemplateForMdq(count, ContentColWidth(count, lMax, gap)),
          IF Truthy(grid) THEN grid.v ELSE <<>>, count, mdq, bps)

\* The outcome of useHugGrid together with its locals at the end of the call.
\* grid is Undefined or Obj(mapping from breakpoints to Arr(<<start, end>>)).
useHugGrid(grid, count, lMax, gap, mdq, bps) ==
  LET template == GridTemplateForMdq(count, ContentColWidth(count, lMax, gap))
  IN IF ~Truthy(grid)
       THEN [status |-> "return",
             gridTemplateForMdq |-> template,
             gridTemplateColumns |-> template,
             value |-> [gridTemplateColumns |-> Join(ColValues(template), "\n"),
                        gridColumn |-> Undefined]]
       ELSE SubGrid(template, grid.v, count, mdq, bps)

(***************************************************************************)
(* Inputs of the direct calls of useHugGrid                                *)
(***************************************************************************)
Obj(m) == [t |-> "object", v |-> m]

\* The line names a span may use: those of a template one column wider than
\* the widest one built, and content-1, which no template has.
SpanNames ==
  {"full-start", "content-start", "content-end", "full-end", "content-1"}
    \cup {"content-" \o ToString(k) : k \in 2..(MaxColumns + 1)}
Spans == {Arr(<<s, e>>) : s, e \in SpanNames}
CommonSpans == {Arr(<<"full-start", "full-end">>),
                Arr(<<"content-start", "content-3">>),
                Arr(<<"content-2", "content-end">>)}

\* No userGrid, a userGrid with at most one breakpoint and any span, or a
\* userGrid with any breakpoints and the common spans.
UserGrids ==
  {Undefined}
    \cup {Obj(m) : m \in UNION {[{b} -> Spans] : b \in BreakpointNames}}
    \cup {Obj(m) : m \in PartialMaps(BreakpointNames, CommonSpans)}

LayoutMaxes == {"80rem"}
GridGaps == {"1rem", "2rem"}

InitGrid ==
  /\ pc = "call"
  /\ userGrid \in UserGrids
  /\ columnCount \in 1..MaxColumns
  /\ layoutMax \in LayoutMaxes
  /\ gridGap \in GridGaps
  /\ currentMdq \in BreakpointNames
  /\ breakpoints = ThemeBreakpoints
  /\ gridTemplateForMdq = <<>> /\ gridTemplateColumns = <<>>
  /\ gridProps = Undefined
  /\ ResolveIdle /\ HugIdle

CallUseHugGrid ==
  /\ pc = "call"
  /\ LET r == useHugGrid(userGrid, columnCount, layoutMax, gridGap,
                         currentMdq, breakpoints)
     IN /\ gridTemplateForMdq' = r.gridTemplateForMdq
        /\ gridTemplateColumns' = r.gridTemplateColumns
        /\ gridProps' = IF r.status = "return"
                          THEN [status |-> "return", value |-> r.value]
                          ELSE [status |-> "throw", message |-> r.message]
  /\ pc' = "done"
  /\ UNCHANGED <<userGrid, columnCount, layoutMax, gridGap, currentMdq, breakpoints>>
  /\ UNCHANGED <<values, breakpoint, defaultValue, result, hugVars>>

NextGrid == CallUseHugGrid

SpecGrid == InitGrid /\ [][NextGrid]_vars

(***************************************************************************)
(* config.ts                                                               *)
(***************************************************************************)
HugConfig ==
  [layoutMax |-> "container.xl",
   gaps |-> [k \in {"base", "md", "lg"} |->
               IF k = "base" THEN Str("4") ELSE IF k = "md" THEN Str("8") ELSE Str("12")],
   columns |-> [k \in {"base", "md", "lg"} |->
                  IF k = "base" THEN Num(4) ELSE IF k = "md" THEN Num(8) ELSE Num(12)]]

(***************************************************************************)
(* Hug                                                                     *)
(***************************************************************************)
\* useToken('sizes', [token]) over the sizes of Chakra UI's default theme; a
\* token the theme does not have is returned as it is.
UseToken(token) ==
  CASE token = "4" -> "1rem"
    [] token = "8" -> "2rem"
    [] token = "12" -> "3rem"
    [] token = "container.xl" -> "1280px"
    [] OTHER -> token

Throw(msg) == [status |-> "throw", message |-> msg]

\* A Hug that falls back to HugConfig's base gap and column count.
HugWithDefaults(themeHug, grid, mdq, bps) ==
  LET config == IF themeHug = Undefined THEN HugConfig ELSE themeHug
  IN IF ~Truthy(mdq)
       THEN Throw(HugEmoji \o " Human Universal Gridder: Can't get current breakpoint")
     ELSE LET gapToken == getClosestValue(config.gaps, mdq.v, bps, Str("4"))
              count == getClosestValue(config.columns, mdq.v, bps, Num(4))
          IN IF ~Truthy(gapToken)
               THEN Throw(HugEmoji
                      \o " Human Universal Gridder: Can't get current gap token")
             ELSE IF ~Truthy(count)
               THEN Throw(HugEmoji
                      \o " Human Universal Gridder: Can't get current number of columns")
             ELSE LET r == useHugGrid(grid, count.v, UseToken(config.layoutMax),
                                      UseToken(gapToken.v), mdq.v, bps)
                  IN IF r.status = "throw" THEN Throw(r.message)
                     ELSE [status |-> "render",
                           props |-> [display |-> "grid",
                                      gap |-> UseToken(gapToken.v),
                                      gridTemplateColumns |-> r.value.gridTemplateColumns,
                                      gridColumn |-> r.value.gridColumn]]

\* One render of Hug: the thrown error, or the props of the rendered div.
\* themeHug is theme.config?.hug, mdq the value of useBreakpointValue.
Hug(themeHug, grid, mdq, bps) ==
  LET config == IF themeHug = Undefined THEN HugConfig ELSE themeHug
  IN IF ~Truthy(mdq)
       THEN Throw(HugEmoji \o " Human Universal Gridder: Can't get current breakpoint")
     ELSE LET gapToken == getClosestValue(config.gaps, mdq.v, bps, Undefined)
              count == getClosestValue(config.columns, mdq.v, bps, Undefined)
          IN IF ~Truthy(gapToken)
               THEN Throw(HugEmoji
                      \o " Human Universal Gridder: Can't get current gap token")
             ELSE IF ~Truthy(count)
               THEN Throw(HugEmoji
                      \o " Human Universal Gridder: Can't get current number of columns")
             ELSE LET r == useHugGrid(grid, count.v, UseToken(config.layoutMax),
                                      UseToken(gapToken.v), mdq.v, bps)
                  IN IF r.status = "throw" THEN Throw(r.message)
                     ELSE [status |-> "render",
                           props |-> [display |-> "grid",
                                      gap |-> UseToken(gapToken.v),
                                      gridTemplateColumns |-> r.value.gridTemplateColumns,
                                      gridColumn |-> r.value.gridColumn]]

(***************************************************************************)
(* Inputs of Hug: the theme's hug configuration, the hugGrid prop and the  *)
(* current breakpoint                                                      *)
(***************************************************************************)
GapTokens == {Str(""), Str("4")}
ColumnCounts == {Num(0), Num(1), Num(MaxColumns)}

HugConfigs ==
  {Undefined}
    \cup {[layoutMax |-> "container.xl", gaps |-> g, columns |-> c] :
            g \in PartialMaps(BreakpointNames, GapTokens),
            c \in PartialMaps(BreakpointNames, ColumnCounts)}

HugGrids ==
  {Undefined,
   Obj([k \in {"sm"} |-> Arr(<<"content-start", "content-2">>)]),
   Obj([k \in {"base"} |-> Arr(<<"content-2", "content-3">>)])}

CurrentMdqs == {Undefined} \cup {Str(b) : b \in BreakpointNames}

Init ==
  /\ pc = "call"
  /\ hugConfig \in HugConfigs
  /\ hugGrid \in HugGrids
  /\ currentMdq \in CurrentMdqs
  /\ breakpoints = ThemeBreakpoints
  /\ element = Undefined
  /\ ResolveIdle /\ GridIdle

\* The first render.
Render ==
  /\ pc = "call"
  /\ element' = Hug(hugConfig, hugGrid, currentMdq, breakpoints)
  /\ pc' = "done"
  /\ UNCHANGED <<hugConfig, hugGrid, currentMdq, breakpoints>>
  /\ UNCHANGED <<values, breakpoint, defaultValue, result, gridVars>>

\* useBreakpointValue reports another breakpoint and the mounted component
\* renders again.
BreakpointChange ==
  /\ pc = "done"
  /\ element.status = "render"
  /\ \E b \in BreakpointNames :
       /\ Str(b) # currentMdq
       /\ currentMdq' = Str(b)
       /\ element' = Hug(hugConfig, hugGrid, Str(b), breakpoints)
  /\ UNCHANGED <<pc, hugConfig, hugGrid, breakpoints>>
  /\ UNCHANGED <<values, breakpoint, defaultValue, result, gridVars>>

Next == Render \/ BreakpointChange

Spec == Init /\ [][Next]_vars

(***************************************************************************)
(* Claims about getClosestValue (SpecResolve)                              *)
(***************************************************************************)
Max(S) == CHOOSE m \in S : \A x \in S : x <= m

\* Positions (0-based) of bps at or below the position of bp whose entry
\* in vals is truthy.
TruthyAtOrBelow(vals, bp, bps) ==
  {i \in 0..IndexOf(bps, bp) : Truthy(Get(vals, At(bps, i)))}

\* C1: mobile-first cascade. When the current breakpoint is in the order and
\* has no own entry, and some breakpoint at or below it has a truthy entry,
\* the result is the entry of the greatest such position: falsy entries are
\* skipped and entries of larger breakpoints are never returned.
C1_Cascade ==
  (/\ pc = "done"
   /\ IndexOf(breakpoints, breakpoint) # -1
   /\ ~HasOwnKey(values, breakpoint)
   /\ TruthyAtOrBelow(values, breakpoint, breakpoints) # {})
    => result = Get(values, At(breakpoints,
                      Max(TruthyAtOrBelow(values, breakpoint, breakpoints))))

\* A falsy entry at sm is skipped in favour of base; and the README example:
\* the gap at md falls back past sm to base.
C1_Witness ==
  /\ pc = "done"
  /\ \/ /\ breakpoints = <<"base", "sm", "md">>
        /\ breakpoint = "md"
        /\ DOMAIN values = {"base", "sm"}
        /\ values["base"] = Num(4) /\ values["sm"] = Num(0)
        /\ result = Num(4)
     \/ /\ breakpoints = ExampleOrder
        /\ breakpoint = "md"
        /\ values = ExampleGaps
        /\ result = Str("4")

\* C2: exact match precedence. An own entry at the current breakpoint, falsy
\* or not, is returned as it is, whatever the order and the fallback.
C2_ExactMatch ==
  (pc = "done" /\ HasOwnKey(values, breakpoint)) => result = values[breakpoint]

\* A falsy own entry at md wins over a truthy entry at base and over the
\* fallback.
C2_Witness ==
  /\ pc = "done"
  /\ breakpoints = <<"base", "sm", "md">>
  /\ breakpoint = "md"
  /\ DOMAIN values = {"base", "md"}
  /\ values["base"] = Num(4) /\ values["md"] = Num(0)
  /\ defaultValue = Num(16)
  /\ result = Num(0)

\* C9 as stated: whenever the current breakpoint is not in the order, the
\* result is the fallback (Undefined when none is given).
C9_NotInOrder_Original ==
  (pc = "done" /\ IndexOf(breakpoints, breakpoint) = -1) => result = defaultValue

\* C9 amended: when the current breakpoint is not in the order and has no own
\* entry in values, no scan happens and the result is the fallback
\* (Undefined when none is given).
C9_NotInOrder ==
  (/\ pc = "done"
   /\ IndexOf(breakpoints, breakpoint) = -1
   /\ ~HasOwnKey(values, breakpoint))
    => result = defaultValue

\* md is not in the order, the breakpoints of the order have truthy entries,
\* and the fallback is returned.
C9_Witness ==
  /\ pc = "done"
  /\ breakpoints = <<"base", "sm">>
  /\ breakpoint = "md"
  /\ DOMAIN values = {"base", "sm"}
  /\ values["base"] = Num(4) /\ values["sm"] = Num(8)
  /\ defaultValue = Num(16)
  /\ result = Num(16)

(***************************************************************************)
(* Claims about useHugGrid (SpecGrid)                                      *)
(***************************************************************************)
\* 0-based position of a line name in a template, -1 when it has none.
Position(template, name) ==
  IF \E i \in 1..Len(template) : template[i].name = name
    THEN (CHOOSE i \in 1..Len(template) :
            /\ template[i].name = name
            /\ \A j \in 1..Len(template) : template[j].name = name => i <= j) - 1
    ELSE -1

Sized(name, size) == "[" \o name \o "] minmax(0, " \o size \o ")"
Unsized(name) == "[" \o name \o "]"

\* The span useHugGrid resolves for the current breakpoint.
ResolvedSpan == getClosestValue(userGrid.v, currentMdq, breakpoints, DefaultSubGrid).v

\* C3: template shape. The full template has columnCount + 3 entries named
\* full-start, content-start, content-2 .. content-<columnCount>, content-end,
\* full-end, in this order and without duplicates; content-1 never occurs;
\* full-start and content-end are 1fr, content-start and every content-k have
\* the content column width, and full-end alone has no size.
C3_TemplateShape ==
  pc = "done" =>
    LET t == gridTemplateForMdq
        n == columnCount
        w == ContentColWidth(columnCount, layoutMax, gridGap)
    IN /\ Len(t) = n + 3
       /\ t[1] = [name |-> "full-start", value |-> Sized("full-start", "1fr")]
       /\ t[2] = [name |-> "content-start", value |-> Sized("content-start", w)]
       /\ \A k \in 2..n :
            t[k + 1] = [name |-> "content-" \o ToString(k),
                        value |-> Sized("content-" \o ToString(k), w)]
       /\ t[n + 2] = [name |-> "content-end", value |-> Sized("content-end", "1fr")]
       /\ t[n + 3] = [name |-> "full-end", value |-> Unsized("full-end")]
       /\ \A i, j \in 1..Len(t) : t[i].name = t[j].name => i = j
       /\ \A i \in 1..Len(t) : t[i].name # "content-1"
       /\ \A i \in 1..Len(t) : (t[i].value = Unsized(t[i].name)) <=> (i = n + 3)

\* The template of three columns.
C3_Witness ==
  /\ pc = "done"
  /\ columnCount = 3
  /\ ColNames(gridTemplateForMdq) =
       <<"full-start", "content-start", "content-2", "content-3",
         "content-end", "full-end">>

\* C4: slice sub-sequence. When start and end are lines of the full template
\* and start occurs before end, the sliced template has idx(end) - idx(start)
\* + 1 entries, those at idx(start) .. idx(end) - 1 are the full template's,
\* the last one is named end and has no size, and the span expression is
\* "<start> / <end>".
C4_Slice ==
  (pc = "done" /\ Truthy(userGrid)) =>
    LET start == ResolvedSpan[1]
        end == ResolvedSpan[2]
        s == Position(gridTemplateForMdq, start)
        e == Position(gridTemplateForMdq, end)
    IN (s # -1 /\ e # -1 /\ s < e) =>
         /\ gridProps.status = "return"
         /\ Len(gridTemplateColumns) = e - s + 1
         /\ \A i \in s..(e - 1) :
              gridTemplateColumns[i - s + 1] = gridTemplateForMdq[i + 1]
         /\ gridTemplateColumns[e - s + 1] = [name |-> end, value |-> Unsized(end)]
         /\ gridProps.value.gridColumn = Str(start \o " / " \o end)
         /\ gridProps.value.gridTemplateColumns =
              Join(ColValues(gridTemplateColumns), "\n")

\* The span content-start / content-3 of a template of four columns.
C4_Witness ==
  /\ pc = "done"
  /\ Truthy(userGrid)
  /\ columnCount = 4
  /\ ResolvedSpan = <<"content-start", "content-3">>
  /\ ColNames(gridTemplateColumns) = <<"content-start", "content-2", "content-3">>
  /\ gridTemplateColumns[3].value = "[content-3]"
  /\ gridProps.value.gridColumn = Str("content-start / content-3")

\* The names of the template of n columns, as the README lists them.
LineNames(n) ==
  <<"full-start", "content-start">>
    \o [k \in 1..(n - 1) |-> "content-" \o ToString(k + 1)]
    \o <<"content-end", "full-end">>

IsLine(n, name) == \E i \in 1..(n + 3) : LineNames(n)[i] = name

\* C5: unknown line name. When the start or the end of the resolved span is
\* no line of the current template, useHugGrid throws and returns nothing;
\* the message names the start when the start is missing, else the end, and
\* lists the template's line names in order with the breakpoint and the
\* column count.
C5_UnknownLine ==
  (pc = "done" /\ Truthy(userGrid)) =>
    LET start == ResolvedSpan[1]
        end == ResolvedSpan[2]
        missing == IF ~IsLine(columnCount, start) THEN start ELSE end
    IN (~IsLine(columnCount, start) \/ ~IsLine(columnCount, end)) =>
         /\ gridProps.status = "throw"
         /\ DOMAIN gridProps = {"status", "message"}
         /\ gridProps.message =
              HugEmoji \o " Human Universal Gridder\n\nThe grid line "
              \o Quote \o missing \o Quote \o " does not exist in the "
              \o currentMdq \o " media query which has " \o ToString(columnCount)
              \o " columns.\nGrid lines for " \o currentMdq \o ": "
              \o Join(LineNames(columnCount), " | ")

\* Both lines missing with four columns: content-1 (start) is the one named.
C5_Witness ==
  /\ pc = "done"
  /\ Truthy(userGrid)
  /\ columnCount = 4
  /\ ResolvedSpan = <<"content-1", "content-5">>
  /\ gridProps.status = "throw"

\* C7: default span. When a userGrid is given and neither the current
\* breakpoint nor any breakpoint below it has an entry, no error is raised,
\* the template is the full template entry for entry and the span expression
\* is "full-start / full-end".
C7_DefaultSpan ==
  (/\ pc = "done"
   /\ Truthy(userGrid)
   /\ \A i \in 1..Len(breakpoints) :
        (i - 1 <= IndexOf(breakpoints, currentMdq)) =>
          ~HasOwnKey(userGrid.v, breakpoints[i]))
    => /\ gridProps.status = "return"
       /\ gridTemplateColumns = gridTemplateForMdq
       /\ gridProps.value.gridColumn = Str("full-start / full-end")
       /\ gridProps.value.gridTemplateColumns =
            Join(ColValues(gridTemplateForMdq), "\n")

\* Only sm is declared and the current breakpoint is base.
C7_Witness ==
  /\ pc = "done"
  /\ Truthy(userGrid)
  /\ DOMAIN userGrid.v = {"sm"}
  /\ userGrid.v["sm"] = Arr(<<"content-2", "content-3">>)
  /\ currentMdq = "base"
  /\ gridProps.status = "return"
  /\ gridProps.value.gridColumn = Str("full-start / full-end")

\* C8: no span supplied. Without a userGrid the call returns the full
\* template, all columnCount + 3 entries in order, and no span expression;
\* no error is raised.
C8_NoUserGrid ==
  (pc = "done" /\ userGrid = Undefined) =>
    /\ gridProps.status = "return"
    /\ gridTemplateColumns = gridTemplateForMdq
    /\ ColNames(gridTemplateColumns) = LineNames(columnCount)
    /\ gridProps.value.gridColumn = Undefined
    /\ gridProps.value.gridTemplateColumns =
         Join(ColValues(gridTemplateForMdq), "\n")

C8_Witness ==
  /\ pc = "done"
  /\ userGrid = Undefined
  /\ columnCount = 4
  /\ currentMdq = "md"
  /\ gridProps.status = "return"
  /\ Len(gridTemplateColumns) = 7

\* C10 as stated: the full template of four columns is full-start,
\* content-start, content-2, content-3, content-end, full-end.
C10_FourColumns_Original ==
  (pc = "done" /\ columnCount = 4) =>
    ColNames(gridTemplateForMdq) =
      <<"full-start", "content-start", "content-2", "content-3",
        "content-end", "full-end">>

\* C10 amended: the full template of four columns is full-start,
\* content-start, content-2, content-3, content-4, content-end, full-end;
\* content-start and content-2 .. content-4 have the content column width,
\* full-start and content-end are 1fr and full-end has no size.
C10_FourColumns ==
  (pc = "done" /\ columnCount = 4) =>
    LET w == ContentColWidth(4, layoutMax, gridGap)
    IN gridTemplateForMdq =
         <<[name |-> "full-start", value |-> "[full-start] minmax(0, 1fr)"],
           [name |-> "content-start", value |-> Sized("content-start", w)],
           [name |-> "content-2", value |-> Sized("content-2", w)],
           [name |-> "content-3", value |-> Sized("content-3", w)],
           [name |-> "content-4", value |-> Sized("content-4", w)],
           [name |-> "content-end", value |-> "[content-end] minmax(0, 1fr)"],
           [name |-> "full-end", value |-> "[full-end]"]>>

C10_Witness ==
  /\ pc = "done"
  /\ columnCount = 4
  /\ layoutMax = "80rem"
  /\ gridGap = "1rem"
  /\ Len(gridTemplateForMdq) = 7
  /\ gridTemplateForMdq[5].value =
       "[content-4] minmax(0, calc(calc(calc(80rem - 1rem) / 4) - 1rem))"

(***************************************************************************)
(* Claims about Hug (Spec)                                                 *)
(***************************************************************************)
\* The configuration a render reads: theme.config?.hug ?? HugConfig.
Config == IF hugConfig = Undefined THEN HugConfig ELSE hugConfig

\* Closest-value resolution at the current breakpoint finds nothing: no own
\* entry, and no truthy entry at or below its position in the order.
Absent(mapping) ==
  /\ ~HasOwnKey(mapping, currentMdq.v)
  /\ \A i \in 1..Len(breakpoints) :
       (i - 1 <= IndexOf(breakpoints, currentMdq.v)) =>
         ~Truthy(Get(mapping, breakpoints[i]))

\* Closest-value resolution finds a truthy value: the own entry, or without
\* one a truthy entry at or below the current position.
Usable(mapping) ==
  IF HasOwnKey(mapping, currentMdq.v)
    THEN Truthy(mapping[currentMdq.v])
    ELSE \E i \in 1..Len(breakpoints) :
           /\ i - 1 <= IndexOf(breakpoints, currentMdq.v)
           /\ Truthy(Get(mapping, breakpoints[i]))

GapError == HugEmoji \o " Human Universal Gridder: Can't get current gap token"
ColumnsError ==
  HugEmoji \o " Human Universal Gridder: Can't get current number of columns"

\* C6: required structural inputs. With a current breakpoint, a render whose
\* gap token resolves to nothing throws the gap error, also when the column
\* count resolves to nothing as well; a render whose gap token resolves and
\* whose column count resolves to nothing throws the column count error. No
\* default is substituted and nothing is rendered.
C6_RequiredInputs ==
  (pc = "done" /\ Truthy(currentMdq)) =>
    /\ Absent(Config.gaps) =>
         element = [status |-> "throw", message |-> GapError]
    /\ (Usable(Config.gaps) /\ Absent(Config.columns)) =>
         element = [status |-> "throw", message |-> ColumnsError]

\* The gap and the column count are both declared from sm on and the current
\* breakpoint is base: the gap error is the one raised.
C6_Witness ==
  /\ pc = "done"
  /\ currentMdq = Str("base")
  /\ hugConfig # Undefined
  /\ DOMAIN hugConfig.gaps = {"sm"} /\ hugConfig.gaps["sm"] = Str("4")
  /\ DOMAIN hugConfig.columns = {"sm"} /\ hugConfig.columns["sm"] = Num(4)
  /\ element = [status |-> "throw", message |-> GapError]

\* C11: reversed or empty span. When start and end are both lines of the
\* full template and start does not occur before end (it occurs after end, or
\* is the same line), useHugGrid raises no error: the returned template is
\* the single entry of the end line without a size, and the span expression
\* is still "<start> / <end>".
C11_ReversedSpan ==
  (pc = "done" /\ Truthy(userGrid)) =>
    LET start == ResolvedSpan[1]
        end == ResolvedSpan[2]
        s == Position(gridTemplateForMdq, start)
        e == Position(gridTemplateForMdq, end)
    IN (s # -1 /\ e # -1 /\ s >= e) =>
         /\ gridProps.status = "return"
         /\ gridTemplateColumns = <<[name |-> end, value |-> Unsized(end)]>>
         /\ gridProps.value.gridTemplateColumns = Unsized(end)
         /\ gridProps.value.gridColumn = Str(start \o " / " \o end)

\* The reversed span content-end / content-2 of a template of four columns.
C11_Witness ==
  /\ pc = "done"
  /\ Truthy(userGrid)
  /\ columnCount = 4
  /\ ResolvedSpan = <<"content-end", "content-2">>
  /\ gridProps.status = "return"
  /\ gridProps.value.gridTemplateColumns = "[content-2]"
  /\ gridProps.value.gridColumn = Str("content-end / content-2")

====
